---- MODULE Spec2Model ----
(***************************************************************************)
(* Model of the Transbank Oneclick API domain layer:                       *)
(*   - InscriptionEntity and its lifecycle (domain/entities/inscription)   *)
(*   - TransactionEntity / TransactionDetail (domain/entities/transaction) *)
(*   - the mappers and repositories' save_entity                           *)
(*   - TransbankService.finish_inscription and authorize_transaction       *)
(*                                                                         *)
(* Conventions.  A Python str is a sequence of one-character strings; the  *)
(* value None of an Optional[str] is the one-element sequence NoneStr.     *)
(* An absent id is NoId, an absent timestamp is NoTime, an absent          *)
(* CardDetails is NoCard.                                                  *)
(***************************************************************************)
EXTENDS Integers, Sequences, FiniteSets, TLC

VARIABLES
    now,            \* the wall clock read by datetime.utcnow()
    ent,            \* the InscriptionEntity under operation, or NoEntity
    prev,           \* value of ent before the last entity operation
    lastOp,         \* last entity operation: its name, arguments and outcome
    schema,         \* row shape of the inscription table ("legacy" | "current")
    inscriptions,   \* committed rows of the inscription table
    transactions,   \* committed rows of the transaction table (with details)
    fin,            \* last finish_inscription run: outcome and entities
    req,            \* authorize_transaction requests in flight, per worker
    calls           \* log of provider authorize calls, in call order

vars == <<now, ent, prev, lastOp, schema, inscriptions, transactions, fin, req, calls>>

----------------------------------------------------------------------------
(* Bounds *)

MaxTime == 2
MaxResponseDetails == 2

----------------------------------------------------------------------------
(* Strings and optional values *)

NoneStr == <<"None">>
NoId == 0
NoTime == -1
NoCard == [present |-> FALSE, card_type |-> <<>>, card_number |-> <<>>]

\* Python truthiness of an Optional[str]: None and "" are falsy
Truthy(s) == s # NoneStr /\ Len(s) > 0

\* Python `sub in s` for a one-character sub
Contains(s, ch) == s # NoneStr /\ \E i \in DOMAIN s : s[i] = ch

EmailSuffix == <<"@", "e", "x", "a", "m", "p", "l", "e", ".", "c", "o", "m">>

PENDING == "PENDING"
COMPLETED == "COMPLETED"
FAILED == "FAILED"
EXPIRED == "EXPIRED"
InscriptionStatus == {PENDING, COMPLETED, FAILED, EXPIRED}

----------------------------------------------------------------------------
(* CardDetails value object *)

CardDetailsValid(card_type, card_number) ==
    /\ Truthy(card_number) /\ Len(card_number) >= 4
    /\ Truthy(card_type)

CardDetails(card_type, card_number) ==
    [present |-> TRUE, card_type |-> card_type, card_number |-> card_number]

----------------------------------------------------------------------------
(* InscriptionEntity *)

NoEntity == [kind |-> "none"]

MinUsernameLen == 3

\* InscriptionEntity._validate: TRUE iff no ValueError is raised
ValidateNoEmailCheck(e) ==
    /\ Truthy(e.username) /\ Len(e.username) >= MinUsernameLen
    /\ Truthy(e.tbk_user)
    /\ Truthy(e.url_webpay)

Validate(e) ==
    /\ Truthy(e.username) /\ Len(e.username) >= MinUsernameLen
    /\ Truthy(e.email) /\ Contains(e.email, "@")
    /\ Truthy(e.tbk_user)
    /\ Truthy(e.url_webpay)

\* the dataclass constructor followed by __post_init__: the entity, or
\* NoEntity when _validate raises
InscriptionEntity(a) ==
    LET e == [kind |-> "entity",
              username |-> a.username, email |-> a.email,
              tbk_user |-> a.tbk_user, url_webpay |-> a.url_webpay,
              status |-> a.status, id |-> a.id,
              card_details |-> a.card_details,
              authorization_code |-> a.authorization_code,
              created_at |-> a.created_at, updated_at |-> a.updated_at]
    IN IF Validate(e) THEN e ELSE NoEntity

\* guards of the transitions: TRUE iff the call does not raise
CompleteGuardNoStatus(e, authorization_code) == Truthy(authorization_code)

\* a completion refused only on an inscription that is already COMPLETED
CompleteGuardNotCompleted(e, authorization_code) ==
    /\ e.status # COMPLETED
    /\ Truthy(authorization_code)

CompleteGuard(e, authorization_code) ==
    /\ e.status = PENDING
    /\ Truthy(authorization_code)

ExpireGuardLoose(e) == e.status \in {PENDING, COMPLETED}

ExpireGuard(e) == e.status = PENDING

FailGuardPendingOnly(e) == e.status = PENDING

FailGuard(e) == TRUE

\* effect of a rejected call on the entity (the guards raise before any
\* assignment)
RejectedStamps(e, t) == [e EXCEPT !.updated_at = t]

Rejected(e, t) == e

CompleteEffect(e, authorization_code, card_details, t) ==
    [e EXCEPT !.status = COMPLETED,
              !.authorization_code = authorization_code,
              !.card_details = card_details,
              !.updated_at = t]

\* an expiry that leaves the time stamp alone
ExpireEffectNoStamp(e, t) == [e EXCEPT !.status = EXPIRED]

ExpireEffect(e, t) == [e EXCEPT !.status = EXPIRED, !.updated_at = t]

FailEffect(e, t) == [e EXCEPT !.status = FAILED, !.updated_at = t]

is_active(e) == e.status = COMPLETED

----------------------------------------------------------------------------
(* Inputs of the entity operations *)

Usernames == { <<>>, <<"a", "b">>, <<"a", "n", "a">> }
Emails == { <<>>, <<"a", "n", "a">>, <<"a", "@", "b">> }
TbkUsers == { <<>>, <<"t", "1">> }
Urls == { <<>>, <<"u">> }
AuthCodes == { NoneStr, <<>>, <<"A", "1">> }
Cards == { NoCard, CardDetails(<<"V">>, <<"*", "*", "*", "*", "1">>) }
Ids == { NoId, 1 }

NoArgs == [username |-> <<>>, email |-> <<>>, tbk_user |-> <<>>,
           url_webpay |-> <<>>, status |-> PENDING, id |-> NoId,
           card_details |-> NoCard, authorization_code |-> NoneStr,
           created_at |-> NoTime, updated_at |-> NoTime]

\* every combination of the four validated fields with the default optional
\* fields, and the well-formed combination with every status, id and
\* updated_at
ConstructArgs ==
    { [NoArgs EXCEPT !.username = u, !.email = m, !.tbk_user = t,
                     !.url_webpay = w, !.status = st] :
        u \in Usernames, m \in Emails, t \in TbkUsers, w \in Urls,
        st \in {PENDING, COMPLETED} }
    \cup
    { [NoArgs EXCEPT !.username = <<"a", "n", "a">>, !.email = <<"a", "@", "b">>,
                     !.tbk_user = <<"t", "1">>, !.url_webpay = <<"u">>,
                     !.status = st, !.id = i, !.updated_at = ua] :
        st \in InscriptionStatus, i \in Ids, ua \in {NoTime, 0} }

----------------------------------------------------------------------------
(* Entity operations.  A behaviour follows one entity from its            *)
(* construction (direct, or inside finish_inscription) through its         *)
(* transitions.                                                            *)

NoOp == [op |-> "none", ok |-> TRUE, args |-> NoArgs]

Tick ==
    /\ now < MaxTime
    /\ now' = now + 1
    /\ UNCHANGED <<ent, prev, lastOp, schema, inscriptions, transactions, fin, req, calls>>

\* InscriptionEntity(...): a failed construction leaves no entity behind
Construct ==
    \E a \in ConstructArgs :
        /\ ent = NoEntity
        /\ ent' = InscriptionEntity(a)
        /\ prev' = ent
        /\ lastOp' = [op |-> "construct", ok |-> (ent' # NoEntity), args |-> a]
        /\ UNCHANGED <<now, schema, inscriptions, transactions, fin, req, calls>>

complete_inscription ==
    \E authorization_code \in AuthCodes, card_details \in Cards :
        /\ ent # NoEntity
        /\ prev' = ent
        /\ ent' = IF CompleteGuard(ent, authorization_code)
                  THEN CompleteEffect(ent, authorization_code, card_details, now)
                  ELSE Rejected(ent, now)
        /\ lastOp' = [op |-> "complete",
                      ok |-> CompleteGuard(ent, authorization_code),
                      args |-> [NoArgs EXCEPT
                                  !.authorization_code = authorization_code,
                                  !.card_details = card_details]]
        /\ UNCHANGED <<now, schema, inscriptions, transactions, fin, req, calls>>

expire ==
    /\ ent # NoEntity
    /\ prev' = ent
    /\ ent' = IF ExpireGuard(ent) THEN ExpireEffect(ent, now) ELSE Rejected(ent, now)
    /\ lastOp' = [op |-> "expire", ok |-> ExpireGuard(ent), args |-> NoArgs]
    /\ UNCHANGED <<now, schema, inscriptions, transactions, fin, req, calls>>

\* fail(reason): the reason is not stored anywhere
fail ==
    \E reason \in AuthCodes :
        /\ ent # NoEntity
        /\ prev' = ent
        /\ ent' = IF FailGuard(ent) THEN FailEffect(ent, now) ELSE Rejected(ent, now)
        /\ lastOp' = [op |-> "fail", ok |-> FailGuard(ent),
                      args |-> [NoArgs EXCEPT !.authorization_code = reason]]
        /\ UNCHANGED <<now, schema, inscriptions, transactions, fin, req, calls>>

----------------------------------------------------------------------------
(* Inscription rows.  A row is a function from the column names of the row *)
(* class to values; hasattr(row, f) is f \in DOMAIN row.                   *)

\* columns of OneclickInscription as declared in models/oneclick_inscription
LegacyColumns ==
    {"id", "username", "email", "tbk_user", "card_type", "card_number_masked",
     "authorization_code", "inscription_date", "is_active",
     "created_at", "updated_at"}

\* columns of the explicit-status row shape the mapper also supports
CurrentColumns ==
    {"id", "username", "email", "tbk_user", "url_webpay", "status",
     "card_type", "card_number", "authorization_code",
     "created_at", "updated_at"}

\* a row shape that offers neither naming convention for the status and
\* for the card number
BareColumns ==
    {"id", "username", "email", "tbk_user", "card_type",
     "authorization_code", "created_at", "updated_at"}

Columns(sch) ==
    CASE sch = "legacy" -> LegacyColumns
      [] sch = "current" -> CurrentColumns
      [] OTHER -> BareColumns

\* hasattr(OneclickInscription, f)
HasColumn(sch, f) == f \in Columns(sch)

\* InscriptionMapper.to_orm
InscriptionToOrm(e, sch) ==
    [c \in Columns(sch) |->
        CASE c = "id" -> e.id
          [] c = "username" -> e.username
          [] c = "email" -> e.email
          [] c = "tbk_user" -> e.tbk_user
          [] c = "authorization_code" -> e.authorization_code
          [] c = "created_at" -> e.created_at
          [] c = "updated_at" -> e.updated_at
          [] c = "url_webpay" -> e.url_webpay
          [] c = "status" -> e.status
          [] c = "is_active" ->
                IF HasColumn(sch, "status") THEN TRUE  \* column default
                ELSE e.status = COMPLETED
          [] c = "card_type" ->
                IF e.card_details.present THEN e.card_details.card_type
                ELSE NoneStr
          [] c = "card_number" ->
                IF e.card_details.present THEN e.card_details.card_number
                ELSE NoneStr
          [] c = "card_number_masked" ->
                IF e.card_details.present /\ ~HasColumn(sch, "card_number")
                THEN e.card_details.card_number
                ELSE NoneStr
          [] c = "inscription_date" -> NoTime]  \* never assigned by the mapper

\* the card_details branch of InscriptionMapper.to_domain:
\* <<raises, card_details>>
RowCardDetails(row) ==
    IF "card_type" \in DOMAIN row /\ "card_number" \in DOMAIN row
    THEN IF Truthy(row.card_type) /\ Truthy(row.card_number)
         THEN <<~CardDetailsValid(row.card_type, row.card_number),
                CardDetails(row.card_type, row.card_number)>>
         ELSE <<FALSE, NoCard>>
    ELSE IF "card_number_masked" \in DOMAIN row /\ Truthy(row.card_number_masked)
         THEN IF "card_type" \in DOMAIN row /\ Truthy(row.card_type)
              THEN <<~CardDetailsValid(row.card_type, row.card_number_masked),
                     CardDetails(row.card_type, row.card_number_masked)>>
              ELSE <<FALSE, NoCard>>
         ELSE <<FALSE, NoCard>>

\* the status branch of InscriptionMapper.to_domain
RowStatus(row) ==
    IF "status" \in DOMAIN row THEN row.status
    ELSE IF "is_active" \in DOMAIN row
         THEN (IF row.is_active THEN COMPLETED ELSE PENDING)
         ELSE PENDING

\* InscriptionMapper.to_domain: the entity, or NoEntity when a ValueError
\* is raised (by CardDetails, InscriptionStatus or the entity's _validate)
InscriptionToDomain(row) ==
    LET card == RowCardDetails(row)
        url_webpay == IF "url_webpay" \in DOMAIN row THEN row.url_webpay ELSE <<>>
    IN IF card[1] \/ RowStatus(row) \notin InscriptionStatus
       THEN NoEntity
       ELSE InscriptionEntity(
              [username |-> row.username, email |-> row.email,
               tbk_user |-> row.tbk_user, url_webpay |-> url_webpay,
               status |-> RowStatus(row), id |-> row.id,
               card_details |-> card[2],
               authorization_code |-> row.authorization_code,
               created_at |-> row.created_at, updated_at |-> row.updated_at])

\* ids of the stored rows; a fresh id stands for a generated uuid
FreshId(rows) ==
    IF rows = {} THEN 1
    ELSE 1 + (CHOOSE m \in {r.id : r \in rows} : \A r \in rows : r.id <= m)

\* INSERT of a row of the declared class: the primary key id has no default
\* and inscription_date is NOT NULL without a default
LegacyInsertAccepted(row) ==
    /\ row.id # NoId
    /\ row.inscription_date # NoTime
    /\ row.username # NoneStr
    /\ row.tbk_user # NoneStr

\* INSERT into the explicit-status row shape: the storage assigns the id
CurrentInsertAccepted(row) == TRUE

InsertAccepted(row, sch) ==
    IF sch = "legacy" THEN LegacyInsertAccepted(row) ELSE CurrentInsertAccepted(row)

\* the row as refreshed after a successful flush (storage-assigned defaults)
Refreshed(row, rows, t) ==
    [row EXCEPT !["id"] = IF @ = NoId THEN FreshId(rows) ELSE @,
                !["created_at"] = IF @ = NoTime THEN t ELSE @,
                !["updated_at"] = IF @ = NoTime THEN t ELSE @]

----------------------------------------------------------------------------
(* Exceptions of the provider calls and the except clauses of the service *)

NoError == [type |-> "none", message |-> "none"]

\* what a call of the provider SDK raises: an SDK or transport error, or a
\* ValueError (the decoding error of a response body that is not JSON)
ProviderErrors ==
    { [type |-> "Exception", message |-> "timeout"],
      [type |-> "ValueError", message |-> "not json"] }

\* TransbankCommunicationException(str(e))
CommunicationError(e) ==
    [type |-> "TransbankCommunicationException", message |-> e.message]

\* the except clauses of each operation: TRUE iff an exception of that type
\* is re-raised as it is
ReRaisedNothing(op, type) == FALSE

ReRaised(op, type) ==
    CASE op = "finish" -> type \in {"TransactionRejectedException", "ValueError"}
      [] op = "delete" -> type = "InscriptionNotFoundException"
      [] op = "authorize" ->
            type \in {"InscriptionNotFoundException", "ValueError",
                      "OrdenCompraDuplicadaException",
                      "TransactionRejectedException",
                      "TransbankCommunicationException"}
      [] OTHER -> FALSE

\* what reaches the caller of operation op when e is raised inside its try
Signal(op, e) ==
    IF ReRaised(op, e.type) THEN e ELSE CommunicationError(e)

\* the same set without delete_inscription
RollingBackNotDelete == {"start", "finish", "authorize"}

\* the operations whose except Exception clause calls db.rollback()
RollingBack == {"start", "finish", "delete", "authorize"}

\* handlers that roll back whatever they caught
RollsBackAlways(op, e) == TRUE

\* TRUE iff the handler reached for e rolls the session back
RollsBack(op, e) == ~ReRaised(op, e.type) /\ op \in RollingBack

\* the exceptions raised by the operations themselves and by the storage
RejectedError == [type |-> "TransactionRejectedException", message |-> "rejected"]
NotFoundError == [type |-> "InscriptionNotFoundException", message |-> "not found"]
DuplicateError == [type |-> "OrdenCompraDuplicadaException", message |-> "duplicate"]
ValidationError == [type |-> "ValueError", message |-> "validation"]
IntegrityError == [type |-> "IntegrityError", message |-> "integrity"]
KeyError == [type |-> "KeyError", message |-> "key"]

OutcomeName(type) ==
    CASE type = "TransactionRejectedException" -> "rejected"
      [] type = "InscriptionNotFoundException" -> "not_found"
      [] type = "OrdenCompraDuplicadaException" -> "duplicate"
      [] OTHER -> type

\* how operation op ends when e is raised inside its try
Outcome(op, e) ==
    IF ReRaised(op, e.type) THEN OutcomeName(e.type) ELSE "communication_error"

----------------------------------------------------------------------------
(* TransbankService.finish_inscription *)

\* the last run of a service operation: whether the provider was called,
\* what it raised or returned, and how the operation ended
NoFin == [outcome |-> "none", saved |-> NoEntity, called |-> FALSE,
          returned |-> FALSE, response_code |-> 0,
          rolled_back |-> FALSE, committed |-> FALSE,
          raised |-> NoError, signal |-> NoError]

\* the operation ends in its except clauses with e raised inside the try
FinFailed(op, e, called) ==
    [NoFin EXCEPT !.called = called,
                  !.outcome = Outcome(op, e),
                  !.rolled_back = RollsBack(op, e),
                  !.signal = Signal(op, e)]

FinishUsernames == { <<"a", "b">>, <<"a", "n", "a">>, <<"a", "@", "b">> }

\* what mall_inscription.finish(token) does: raise, or return a response
FinishResponses ==
    { rs \in [raises : BOOLEAN, exc : ProviderErrors \cup {NoError},
              response_code : {0, -96}, tbk_user : TbkUsers,
              authorization_code : { <<"A", "1">> },
              card_type : { <<"V">> },
              card_number : { <<"1">>, <<"*", "*", "*", "*", "1">> }] :
        rs.raises <=> rs.exc # NoError }

\* status given to the entity built from a successful finish response
FinishStatusPending == PENDING

FinishStatus == COMPLETED

\* constructor arguments of the entity built in step 2
FinishArgs(username, response, t) ==
    [username |-> username,
     email |-> IF Contains(username, "@") THEN username
               ELSE username \o EmailSuffix,
     tbk_user |-> response.tbk_user,
     url_webpay |-> <<"u">>,
     status |-> FinishStatus, id |-> NoId,
     card_details |-> CardDetails(response.card_type, response.card_number),
     authorization_code |-> response.authorization_code,
     created_at |-> t, updated_at |-> t]

\* the entity built in step 2, or NoEntity when CardDetails or the entity
\* constructor raises ValueError
FinishEntity(username, response, t) ==
    IF ~CardDetailsValid(response.card_type, response.card_number)
    THEN NoEntity
    ELSE InscriptionEntity(FinishArgs(username, response, t))

finish_inscription ==
    \E username \in FinishUsernames, response \in FinishResponses :
        LET built == FinishEntity(username, response, now)
            orm == InscriptionToOrm(built, schema)
            row == Refreshed(orm, inscriptions, now)
            saved == InscriptionToDomain(row)
            reached == ~response.raises /\ response.response_code = 0
        IN
        /\ ent = NoEntity
        /\ prev' = ent
        /\ ent' = IF reached THEN built ELSE NoEntity
        /\ lastOp' = [op |-> "finish", ok |-> (ent' # NoEntity),
                      args |-> IF reached THEN FinishArgs(username, response, now)
                               ELSE NoArgs]
        /\ IF response.raises
           THEN /\ fin' = [FinFailed("finish", response.exc, TRUE)
                             EXCEPT !.raised = response.exc]
                /\ UNCHANGED inscriptions
           ELSE IF response.response_code # 0
           THEN \* raise TransactionRejectedException
                /\ fin' = [FinFailed("finish", RejectedError, TRUE)
                             EXCEPT !.returned = TRUE,
                                    !.response_code = response.response_code]
                /\ UNCHANGED inscriptions
           ELSE IF built = NoEntity
           THEN \* ValueError of CardDetails or of the entity
                /\ fin' = [FinFailed("finish", ValidationError, TRUE)
                             EXCEPT !.returned = TRUE]
                /\ UNCHANGED inscriptions
           ELSE IF ~InsertAccepted(orm, schema)
           THEN \* flush raises
                /\ fin' = [FinFailed("finish", IntegrityError, TRUE)
                             EXCEPT !.returned = TRUE]
                /\ UNCHANGED inscriptions
           ELSE IF saved = NoEntity
           THEN \* to_domain raises ValueError after the flush; the session
                \* is closed without a commit
                /\ fin' = [FinFailed("finish", ValidationError, TRUE)
                             EXCEPT !.returned = TRUE]
                /\ UNCHANGED inscriptions
           ELSE /\ fin' = [NoFin EXCEPT !.called = TRUE, !.outcome = "ok",
                                        !.returned = TRUE,
                                        !.saved = saved, !.committed = TRUE]
                /\ inscriptions' = inscriptions \cup {row}
        /\ UNCHANGED <<now, schema, transactions, req, calls>>

----------------------------------------------------------------------------
(* Amount, TransactionDetail, TransactionEntity *)

AUTHORIZED == "AUTHORIZED"
REVERSED == "REVERSED"
TXN_FAILED == "FAILED"
CAPTURED == "CAPTURED"
TransactionStatus == {AUTHORIZED, REVERSED, TXN_FAILED, CAPTURED}

\* PaymentType(code) raises ValueError for any other code
PaymentTypeCodes == {"VD", "VN", "VC", "VP", "S2", "SI"}
NoPaymentType == "None"

MaxBuyOrderLen == 26

\* a validation that rejects only negative values
AmountValidNonNegative(value) == ~(value < 0)

\* Amount.__post_init__: TRUE iff no ValueError
AmountValid(value) == ~(value < 0) /\ ~(value = 0)

\* a constructor that refuses negative values only
AmountOrZero(value) ==
    IF value < 0
    THEN [kind |-> "ValueError", message |-> "Amount cannot be negative"]
    ELSE [kind |-> "Amount", value |-> value]

\* Amount(value=...): the object, or the ValueError of __post_init__
Amount(value) ==
    IF value < 0
    THEN [kind |-> "ValueError", message |-> "Amount cannot be negative"]
    ELSE IF value = 0
    THEN [kind |-> "ValueError", message |-> "Amount must be greater than zero"]
    ELSE [kind |-> "Amount", value |-> value]

\* a detail validation without the length rule
DetailValidAnyLength(d) ==
    /\ Truthy(d.commerce_code)
    /\ Truthy(d.buy_order)

\* TransactionDetail.__post_init__: TRUE iff no ValueError
DetailValid(d) ==
    /\ Truthy(d.commerce_code)
    /\ Truthy(d.buy_order)
    /\ ~(Len(d.buy_order) > MaxBuyOrderLen)

NoTxn == [kind |-> "none"]

\* TransactionEntity._validate: TRUE iff no ValueError
TxnValidate(username, buy_order) ==
    /\ Truthy(username)
    /\ Truthy(buy_order)
    /\ ~(Len(buy_order) > MaxBuyOrderLen)

TransactionEntity(a) ==
    IF TxnValidate(a.username, a.buy_order)
    THEN [kind |-> "transaction", username |-> a.username,
          buy_order |-> a.buy_order, details |-> a.details, id |-> a.id,
          inscription_id |-> a.inscription_id, card_number |-> a.card_number,
          accounting_date |-> a.accounting_date,
          transaction_date |-> a.transaction_date, created_at |-> a.created_at]
    ELSE NoTxn

\* `detail in self.details`: dataclass equality, field by field
DetailIn(d, details) == \E i \in 1..Len(details) : details[i] = d

\* an authorization test that looks at the status alone
is_authorizedByStatus(d) == d.status = AUTHORIZED

\* TransactionDetail.is_authorized
is_authorized(d) ==
    /\ d.status = AUTHORIZED
    /\ d.response_code = 0
    /\ d.authorization_code # NoneStr

RECURSIVE SumAmounts(_)
SumAmounts(details) ==
    IF details = <<>> THEN 0
    ELSE Head(details).amount + SumAmounts(Tail(details))

is_fully_authorized(t) ==
    IF t.details = <<>> THEN FALSE
    ELSE \A i \in 1..Len(t.details) : is_authorized(t.details[i])

has_failed_details(t) ==
    \E i \in 1..Len(t.details) : t.details[i].status = TXN_FAILED

\* TransactionEntity.can_be_refunded
can_be_refunded(t) == is_fully_authorized(t)

\* TransactionEntity.get_total_amount: the Amount built from the sum, or the
\* ValueError of Amount.__post_init__
GetTotalAmount(t) ==
    LET total == SumAmounts(t.details)
    IN  IF AmountValid(total)
        THEN [kind |-> "Amount", value |-> total]
        ELSE [kind |-> "ValueError", value |-> total]

----------------------------------------------------------------------------
(* Transaction rows and TransactionMapper *)

\* TransactionMapper._detail_to_orm
DetailToOrm(d, transaction_id, id) ==
    [id |-> IF d.id # NoId THEN d.id ELSE id,
     transaction_id |-> transaction_id,
     commerce_code |-> d.commerce_code, buy_order |-> d.buy_order,
     amount |-> d.amount, status |-> d.status,
     authorization_code |-> d.authorization_code,
     payment_type_code |-> d.payment_type_code,
     response_code |-> d.response_code,
     installments_number |-> d.installments_number]

\* TransactionMapper.to_orm; fresh stands for the generated uuids.  The
\* mapper never assigns inscription_id.
TransactionToOrm(e, fresh) ==
    LET transaction_id == IF e.id # NoId THEN e.id ELSE fresh
    IN [id |-> transaction_id,
        username |-> e.username,
        inscription_id |-> NoId,
        parent_buy_order |-> e.buy_order,
        accounting_date |-> e.accounting_date,
        transaction_date |-> e.transaction_date,
        created_at |-> e.created_at,
        total_amount |-> SumAmounts(e.details),
        status |-> IF e.details # <<>> THEN e.details[1].status ELSE AUTHORIZED,
        card_number_masked |-> IF Truthy(e.card_number) THEN e.card_number
                               ELSE NoneStr,
        details |-> [i \in 1..Len(e.details) |->
                        DetailToOrm(e.details[i], transaction_id,
                                    transaction_id * 10 + i)]]

\* TransactionMapper._detail_to_domain: TRUE iff it raises ValueError
DetailRowRaises(dr) ==
    \/ ~AmountValid(dr.amount)
    \/ dr.status \notin TransactionStatus
    \/ (dr.payment_type_code # NoPaymentType
        /\ dr.payment_type_code \notin PaymentTypeCodes)
    \/ ~DetailValid(dr)

DetailToDomain(dr) ==
    [commerce_code |-> dr.commerce_code, buy_order |-> dr.buy_order,
     amount |-> dr.amount, status |-> dr.status,
     authorization_code |-> dr.authorization_code,
     payment_type_code |-> dr.payment_type_code,
     response_code |-> dr.response_code,
     installments_number |-> dr.installments_number,
     id |-> dr.id]

\* TransactionMapper.to_domain: the entity, or NoTxn when a ValueError is
\* raised; inscription_id is not read back
TransactionToDomain(row) ==
    IF \E i \in 1..Len(row.details) : DetailRowRaises(row.details[i])
    THEN NoTxn
    ELSE TransactionEntity(
           [username |-> row.username,
            buy_order |-> row.parent_buy_order,
            details |-> [i \in 1..Len(row.details) |-> DetailToDomain(row.details[i])],
            id |-> row.id, inscription_id |-> NoId,
            card_number |-> IF Truthy(row.card_number_masked)
                            THEN row.card_number_masked ELSE NoneStr,
            accounting_date |-> row.accounting_date,
            transaction_date |-> row.transaction_date,
            created_at |-> row.created_at])

\* INSERT into oneclick_transactions: inscription_id and transaction_date
\* are NOT NULL, parent_buy_order is UNIQUE, id is the primary key
TransactionInsertAccepted(row, rows) ==
    /\ row.inscription_id # NoId
    /\ row.transaction_date # NoTime
    /\ row.id # NoId
    /\ \A t \in rows : t.parent_buy_order # row.parent_buy_order /\ t.id # row.id

----------------------------------------------------------------------------
(* Workers handling authorize_transaction requests *)

Workers == {1, 2}

\* what mall_transaction.authorize has not returned yet
NoResponse == [raises |-> FALSE, exc |-> NoError, details |-> <<>>,
               card_number |-> NoneStr,
               accounting_date |-> NoneStr, transaction_date |-> NoTime]

IdleReq ==
    [pc |-> "idle", username |-> <<>>, buy_order |-> <<>>, details |-> <<>>,
     checked |-> FALSE, existing |-> FALSE, inscription |-> NoEntity, called |-> FALSE,
     sent |-> <<>>, response |-> NoResponse, entity |-> NoTxn,
     added |-> FALSE, saved |-> NoTxn, outcome |-> "none",
     signal |-> NoError, rolled_back |-> FALSE, committed |-> FALSE]

B1 == <<"B", "1">>
B2 == <<"B", "2">>
BuyOrders == {B1, B2}
Ana == <<"a", "n", "a">>
Bob == <<"b", "o", "b">>

\* requested details (TransactionDetail schema: amount > 0)
Item1 == [commerce_code |-> <<"C", "1">>, buy_order |-> <<"o", "1">>,
          amount |-> 10000, installments_number |-> 1]
Item2 == [commerce_code |-> <<"C", "2">>, buy_order |-> <<"o", "2">>,
          amount |-> 25000, installments_number |-> 1]

\* TransactionAuthorizeRequest: details has at least one item
AuthRequests ==
    [username : {Ana, Bob}, buy_order : BuyOrders,
     details : { <<Item1>>, <<Item2>>, <<Item1, Item2>> }]

\* details of a provider response
ResponseDetails ==
    { [commerce_code |-> it.commerce_code, buy_order |-> bo,
       amount |-> it.amount, response_code |-> rc,
       authorization_code |-> IF rc = 0 THEN <<"A", "1">> ELSE NoneStr,
       payment_type_code |-> "VN", installments_number |-> 0] :
        it \in {Item1, Item2}, bo \in BuyOrders, rc \in {0, -96} }

RECURSIVE SeqsUpTo(_, _)
SeqsUpTo(S, n) ==
    IF n = 0 THEN { <<>> }
    ELSE LET shorter == SeqsUpTo(S, n - 1)
         IN shorter \cup { Append(q, x) : q \in shorter, x \in S }

\* what mall_transaction.authorize(...) does: raise, or return a response
\* with at least one detail
AuthResponses ==
    { [NoResponse EXCEPT !.raises = TRUE, !.exc = e] : e \in ProviderErrors }
    \cup
    { [raises |-> FALSE, exc |-> NoError, details |-> ds, card_number |-> <<"*", "*", "*", "*", "1">>,
       accounting_date |-> <<"0", "3", "2", "0">>, transaction_date |-> 0] :
        ds \in SeqsUpTo(ResponseDetails, MaxResponseDetails) \ { <<>> } }

\* MallTransactionAuthorizeDetails built in step 3: the first requested
\* detail only, under the parent buy order
SentDetails(buy_order, details) ==
    << [commerce_code |-> details[1].commerce_code, buy_order |-> buy_order,
        installments_number |-> 0, amount |-> details[1].amount] >>

\* status given to the detail built from a response detail
DetailStatus(response_code) ==
    IF response_code = 0 THEN AUTHORIZED ELSE TXN_FAILED

\* the TransactionDetail built from one response detail
ResponseDetailEntity(dd) ==
    [commerce_code |-> dd.commerce_code, buy_order |-> dd.buy_order,
     amount |-> dd.amount, status |-> DetailStatus(dd.response_code),
     authorization_code |-> dd.authorization_code,
     payment_type_code |-> dd.payment_type_code,
     response_code |-> dd.response_code,
     installments_number |-> dd.installments_number,
     id |-> NoId]

\* the loop of step 6: <<raises ValueError, details added so far>>
RECURSIVE AddDetails(_, _)
AddDetails(details, remaining) ==
    IF remaining = <<>> THEN <<FALSE, details>>
    ELSE LET dd == Head(remaining)
             d == ResponseDetailEntity(dd)
         IN IF \/ ~AmountValid(dd.amount)
               \/ (dd.payment_type_code # NoPaymentType
                   /\ dd.payment_type_code \notin PaymentTypeCodes)
               \/ ~DetailValid(d)
               \/ DetailIn(d, details)
            THEN <<TRUE, details>>
            ELSE AddDetails(Append(details, d), Tail(remaining))

\* steps 5 and 6: the TransactionEntity with its details, or NoTxn when a
\* ValueError is raised
BuildTransaction(username, buy_order, inscription_id, response, t) ==
    LET e == TransactionEntity(
               [username |-> username, buy_order |-> buy_order,
                details |-> <<>>, id |-> NoId,
                inscription_id |-> inscription_id,
                card_number |-> response.card_number,
                accounting_date |-> response.accounting_date,
                transaction_date |-> response.transaction_date,
                created_at |-> t])
        added == AddDetails(<<>>, response.details)
    IN IF e = NoTxn \/ added[1] THEN NoTxn
       ELSE [e EXCEPT !.details = added[2]]

\* a row of oneclick_transactions written with its inscription_id, as
\* TransactionRepository.create_with_details writes it
StoredTransaction(id, username, buy_order, inscription_id) ==
    [id |-> id, username |-> username, inscription_id |-> inscription_id,
     parent_buy_order |-> buy_order, accounting_date |-> <<"0", "3", "2", "0">>,
     transaction_date |-> 0, created_at |-> 0, total_amount |-> Item1.amount,
     status |-> AUTHORIZED, card_number_masked |-> <<"*", "*", "*", "*", "1">>,
     details |-> << [id |-> id * 10 + 1, transaction_id |-> id,
                     commerce_code |-> Item1.commerce_code,
                     buy_order |-> Item1.buy_order, amount |-> Item1.amount,
                     status |-> AUTHORIZED, authorization_code |-> <<"A", "1">>,
                     payment_type_code |-> "VN", response_code |-> 0,
                     installments_number |-> 1] >>]

\* TransactionRepository.get_by_buy_order as seen from worker r's session:
\* the committed rows with that parent_buy_order
GetByBuyOrderNone(r, buy_order) == {}

GetByBuyOrderSerialized(r, buy_order) ==
    { t \in transactions : t.parent_buy_order = buy_order }
    \cup { StoredTransaction(FreshId(transactions), req[w].username, buy_order, 1) :
             w \in { o \in Workers \ {r} :
                       /\ req[o].pc \in {"lookup", "provider", "save"}
                       /\ req[o].buy_order = buy_order } }

GetByBuyOrder(r, buy_order) ==
    { t \in transactions : t.parent_buy_order = buy_order }

\* the rows InscriptionRepository.get_active_by_username filters on
CurrentRowIsActive(row) == row.status = COMPLETED

RowIsActive(row) ==
    IF "is_active" \in DOMAIN row THEN row.is_active
    ELSE CurrentRowIsActive(row)

\* a stored inscription row of the given shape
StoredInscription(sch, id, status) ==
    LET row == InscriptionToOrm(
                 [NoArgs EXCEPT !.username = Ana,
                                !.email = <<"a", "@", "x">>,
                                !.tbk_user = <<"t", "1">>,
                                !.url_webpay = <<"u">>,
                                !.status = status, !.id = id,
                                !.authorization_code = <<"A", "1">>,
                                !.created_at = 0], sch)
    IN IF "inscription_date" \in DOMAIN row
       THEN [row EXCEPT !.inscription_date = 0]
       ELSE row

GetActiveByUsername(username) ==
    { row \in inscriptions : row.username = username /\ RowIsActive(row) }

----------------------------------------------------------------------------
(* TransbankService.authorize_transaction, one action per storage or       *)
(* provider round trip                                                     *)

AuthorizeBegin(r, requests) ==
    \E rq \in requests :
        /\ req[r].pc = "idle"
        /\ req' = [req EXCEPT ![r] = [IdleReq EXCEPT !.pc = "check",
                                        !.username = rq.username,
                                        !.buy_order = rq.buy_order,
                                        !.details = rq.details]]
        /\ UNCHANGED <<now, ent, prev, lastOp, schema, inscriptions, transactions, fin, calls>>

\* the run rq ends in the except clauses with e raised inside the try
ReqFailed(rq, e) ==
    [rq EXCEPT !.pc = "done",
               !.outcome = Outcome("authorize", e),
               !.signal = Signal("authorize", e),
               !.rolled_back = RollsBack("authorize", e)]

\* step 1: duplicate buy_order check
AuthorizeCheckDuplicate(r) ==
    LET found == GetByBuyOrder(r, req[r].buy_order) IN
    /\ req[r].pc = "check"
    /\ IF found = {}
       THEN req' = [req EXCEPT ![r].pc = "lookup", ![r].checked = TRUE]
       ELSE \E row \in found :
              req' = [req EXCEPT ![r] =
                        ReqFailed([req[r] EXCEPT !.checked = TRUE,
                                                 !.existing = TRUE],
                                  IF TransactionToDomain(row) = NoTxn
                                  THEN ValidationError ELSE DuplicateError)]
    /\ UNCHANGED <<now, ent, prev, lastOp, schema, inscriptions, transactions, fin, calls>>

\* step 2: the user's active inscription, as a domain entity
AuthorizeFindInscription(r) ==
    LET found == GetActiveByUsername(req[r].username) IN
    /\ req[r].pc = "lookup"
    /\ IF found = {}
       THEN req' = [req EXCEPT ![r] = ReqFailed(req[r], NotFoundError)]
       ELSE \E row \in found :
              LET e == InscriptionToDomain(row) IN
              req' = IF e = NoEntity
                     THEN [req EXCEPT ![r] = ReqFailed(req[r], ValidationError)]
                     ELSE [req EXCEPT ![r].pc = "provider", ![r].inscription = e]
    /\ UNCHANGED <<now, ent, prev, lastOp, schema, inscriptions, transactions, fin, calls>>

\* steps 3 to 6: the provider call and the entity built from its response
AuthorizeCallProvider(r, responses) ==
    \E response \in responses :
        LET sent == SentDetails(req[r].buy_order, req[r].details)
            e == BuildTransaction(req[r].username, req[r].buy_order,
                                  req[r].inscription.id, response, now)
            called == [req[r] EXCEPT !.called = TRUE, !.sent = sent,
                                     !.response = response]
        IN
        /\ req[r].pc = "provider"
        /\ calls' = Append(calls, [worker |-> r, username |-> req[r].username,
                                   tbk_user |-> req[r].inscription.tbk_user,
                                   parent_buy_order |-> req[r].buy_order,
                                   details |-> sent])
        /\ req' = IF response.raises
                  THEN [req EXCEPT ![r] = ReqFailed(called, response.exc)]
                  ELSE IF e = NoTxn
                  THEN [req EXCEPT ![r] = ReqFailed(called, ValidationError)]
                  ELSE [req EXCEPT ![r] = [called EXCEPT !.pc = "save",
                                                         !.entity = e]]
        /\ UNCHANGED <<now, ent, prev, lastOp, schema, inscriptions, transactions, fin>>

\* steps 7 and 8: save_entity (to_orm, add, flush, refresh, to_domain) and
\* the commit
AuthorizeSave(r) ==
    LET orm == TransactionToOrm(req[r].entity, FreshId(transactions))
        saved == TransactionToDomain(orm)
        added == [req[r] EXCEPT !.added = TRUE]
    IN
    /\ req[r].pc = "save"
    /\ IF ~TransactionInsertAccepted(orm, transactions)
       THEN \* flush raises
            /\ req' = [req EXCEPT ![r] = ReqFailed(added, IntegrityError)]
            /\ UNCHANGED transactions
       ELSE IF saved = NoTxn
       THEN /\ req' = [req EXCEPT ![r] = ReqFailed(added, ValidationError)]
            /\ UNCHANGED transactions
       ELSE /\ req' = [req EXCEPT ![r] = [added EXCEPT !.pc = "done",
                                            !.saved = saved, !.outcome = "ok",
                                            !.committed = TRUE]]
            /\ transactions' = transactions \cup {orm}
    /\ UNCHANGED <<now, ent, prev, lastOp, schema, inscriptions, fin, calls>>

----------------------------------------------------------------------------
(* Specification of the inscription lifecycle and the finish flow *)

Init ==
    /\ now = 0
    /\ ent = NoEntity
    /\ prev = NoEntity
    /\ lastOp = NoOp
    /\ schema \in {"legacy", "current"}
    /\ inscriptions = {}
    /\ transactions = {}
    /\ fin = NoFin
    /\ req = [r \in Workers |-> IdleReq]
    /\ calls = <<>>

Next ==
    \/ Tick
    \/ Construct
    \/ complete_inscription
    \/ expire
    \/ fail
    \/ finish_inscription

Spec == Init /\ [][Next]_vars

----------------------------------------------------------------------------
(* The operations that call the provider and persist nothing:              *)
(* start_inscription, get_transaction_status, capture_transaction,         *)
(* refund_transaction; and delete_inscription                              *)

\* what a provider call does: raise, return a response the operation can
\* convert, or return one whose conversion raises (a missing key)
ProviderOutcomes ==
    { [raises |-> TRUE, exc |-> e, wellformed |-> FALSE] : e \in ProviderErrors }
    \cup { [raises |-> FALSE, exc |-> NoError, wellformed |-> w] : w \in BOOLEAN }

\* try: call the provider, convert the response; except Exception: wrap.
\* Only start_inscription calls db.rollback() in its except clause.
CallAndConvert(op) ==
    \E o \in ProviderOutcomes :
        /\ fin = NoFin
        /\ ent = NoEntity
        /\ lastOp' = [op |-> op, ok |-> (~o.raises /\ o.wellformed),
                      args |-> NoArgs]
        /\ fin' = IF o.raises
                  THEN [FinFailed(op, o.exc, TRUE) EXCEPT !.raised = o.exc]
                  ELSE IF ~o.wellformed
                  THEN [FinFailed(op, KeyError, TRUE) EXCEPT !.returned = TRUE]
                  ELSE [NoFin EXCEPT !.called = TRUE, !.returned = TRUE,
                                     !.outcome = "ok"]
        /\ UNCHANGED <<now, ent, prev, schema, inscriptions, transactions, req, calls>>

start_inscription == CallAndConvert("start")

get_transaction_status == CallAndConvert("status")

capture_transaction == CallAndConvert("capture")

refund_transaction == CallAndConvert("refund")

\* DELETE of an inscription row: the rows of oneclick_transactions that
\* point to it have a NOT NULL inscription_id
DeleteAccepted(id) == \A t \in transactions : t.inscription_id # id

delete_inscription ==
    \E username \in {Ana, Bob},
       o \in { x \in ProviderOutcomes : x.raises \/ x.wellformed } :
        LET found == GetActiveByUsername(username) IN
        /\ fin = NoFin
        /\ ent = NoEntity
        /\ IF found = {}
           THEN \* raise InscriptionNotFoundException
                /\ fin' = FinFailed("delete", NotFoundError, FALSE)
                /\ UNCHANGED inscriptions
           ELSE \E row \in found :
                  LET e == InscriptionToDomain(row) IN
                  IF e = NoEntity
                  THEN \* ValueError of the mapper
                       /\ fin' = FinFailed("delete", ValidationError, FALSE)
                       /\ UNCHANGED inscriptions
                  ELSE IF o.raises
                  THEN /\ fin' = [FinFailed("delete", o.exc, TRUE)
                                    EXCEPT !.raised = o.exc]
                       /\ UNCHANGED inscriptions
                  ELSE IF ~DeleteAccepted(e.id)
                  THEN \* flush raises
                       /\ fin' = [FinFailed("delete", IntegrityError, TRUE)
                                    EXCEPT !.returned = TRUE]
                       /\ UNCHANGED inscriptions
                  ELSE /\ fin' = [NoFin EXCEPT !.called = TRUE, !.returned = TRUE,
                                    !.outcome = "ok", !.committed = TRUE]
                       /\ inscriptions' = { x \in inscriptions : x.id # e.id }
        /\ lastOp' = [op |-> "delete", ok |-> (fin'.outcome = "ok"),
                      args |-> [NoArgs EXCEPT !.username = username]]
        /\ UNCHANGED <<now, ent, prev, schema, transactions, req, calls>>

----------------------------------------------------------------------------
(* InscriptionRepository.save_entity and TransactionRepository.save_entity *)
(* on the rows of the session                                              *)

\* the UPDATE sent by flush: when a column changed and updated_at is not
\* among the changed ones, onupdate=func.now() stamps it
Flushed(old, new, t) ==
    IF new # old /\ new.updated_at = old.updated_at
    THEN [new EXCEPT !["updated_at"] = t]
    ELSE new

\* InscriptionMapper.update_orm_from_entity
UpdateOrmFromEntity(row, e) ==
    [c \in DOMAIN row |->
        CASE c = "username" -> e.username
          [] c = "email" -> e.email
          [] c = "tbk_user" -> e.tbk_user
          [] c = "authorization_code" -> e.authorization_code
          [] c = "updated_at" -> e.updated_at
          [] c = "url_webpay" -> e.url_webpay
          [] c = "status" -> e.status
          [] c = "is_active" ->
                IF "status" \in DOMAIN row THEN row[c]
                ELSE e.status = COMPLETED
          [] c = "card_type" ->
                IF e.card_details.present THEN e.card_details.card_type
                ELSE row[c]
          [] c = "card_number" ->
                IF e.card_details.present THEN e.card_details.card_number
                ELSE row[c]
          [] c = "card_number_masked" ->
                IF e.card_details.present /\ "card_number" \notin DOMAIN row
                THEN e.card_details.card_number
                ELSE row[c]
          [] OTHER -> row[c]]

\* InscriptionRepository.save_entity:
\* <<exception raised or NoError, rows after the call, entity returned>>
InscriptionSaveEntity(e, rows, sch, t) ==
    IF e.id # NoId
    THEN \* update existing
         LET found == { x \in rows : x.id = e.id } IN
         IF found = {}
         THEN <<ValidationError, rows, NoEntity>>
         ELSE LET old == CHOOSE x \in found : TRUE
                  row == Flushed(old, UpdateOrmFromEntity(old, e), t)
                  saved == InscriptionToDomain(row)
              IN <<IF saved = NoEntity THEN ValidationError ELSE NoError,
                   (rows \ {old}) \cup {row}, saved>>
    ELSE \* create new
         LET orm == InscriptionToOrm(e, sch)
             row == Refreshed(orm, rows, t)
             saved == InscriptionToDomain(row)
         IN IF ~InsertAccepted(orm, sch)
            THEN <<IntegrityError, rows, NoEntity>>
            ELSE <<IF saved = NoEntity THEN ValidationError ELSE NoError,
                   rows \cup {row}, saved>>

\* TransactionRepository.save_entity: always to_orm, add, flush
TransactionSaveEntity(e, rows) ==
    LET orm == TransactionToOrm(e, FreshId(rows))
        saved == TransactionToDomain(orm)
    IN IF ~TransactionInsertAccepted(orm, rows)
       THEN <<IntegrityError, rows, NoTxn>>
       ELSE <<IF saved = NoTxn THEN ValidationError ELSE NoError,
              rows \cup {orm}, saved>>

\* the entities handed to the repositories
SavedInscriptions ==
    { InscriptionEntity(
        [NoArgs EXCEPT !.username = Ana, !.email = <<"a", "@", "x">>,
                       !.tbk_user = tbk, !.url_webpay = <<"u">>,
                       !.status = st, !.id = id, !.card_details = card,
                       !.authorization_code = <<"A", "1">>,
                       !.created_at = 0, !.updated_at = 0]) :
        tbk \in {<<"t", "1">>, <<"t", "2">>}, st \in InscriptionStatus,
        id \in {NoId, 1, 2, 3}, card \in Cards }

SavedDetail(it, st) ==
    [commerce_code |-> it.commerce_code, buy_order |-> it.buy_order,
     amount |-> it.amount, status |-> st,
     authorization_code |-> IF st = AUTHORIZED THEN <<"A", "1">> ELSE NoneStr,
     payment_type_code |-> "VN",
     response_code |-> IF st = AUTHORIZED THEN 0 ELSE -96,
     installments_number |-> 1, id |-> NoId]

SavedTransactions ==
    { TransactionEntity(
        [username |-> Ana, buy_order |-> bo, details |-> ds, id |-> id,
         inscription_id |-> ins, card_number |-> <<"*", "*", "*", "*", "1">>,
         accounting_date |-> <<"0", "3", "2", "0">>,
         transaction_date |-> 0, created_at |-> 0]) :
        bo \in BuyOrders, id \in {NoId, 1, 2}, ins \in {NoId, 1},
        ds \in { <<SavedDetail(Item1, AUTHORIZED)>>,
                 <<SavedDetail(Item1, AUTHORIZED), SavedDetail(Item2, TXN_FAILED)>> } }

\* one call of save_entity on the stored rows; lastOp.args is the entity
\* handed in
inscription_save_entity ==
    \E e \in SavedInscriptions :
        LET res == InscriptionSaveEntity(e, inscriptions, schema, now) IN
        /\ lastOp = NoOp
        /\ lastOp' = [op |-> "inscription.save_entity", ok |-> (res[1] = NoError),
                      args |-> e]
        /\ inscriptions' = res[2]
        /\ ent' = res[3]
        /\ UNCHANGED <<now, prev, schema, transactions, fin, req, calls>>

transaction_save_entity ==
    \E e \in SavedTransactions :
        LET res == TransactionSaveEntity(e, transactions) IN
        /\ lastOp = NoOp
        /\ lastOp' = [op |-> "transaction.save_entity", ok |-> (res[1] = NoError),
                      args |-> e]
        /\ transactions' = res[2]
        /\ UNCHANGED <<now, ent, prev, schema, inscriptions, fin, req, calls>>

----------------------------------------------------------------------------
(* Calls of the mappers: prev is what is handed in, ent what comes back *)

inscription_round_trip ==
    \E e \in SavedInscriptions :
        /\ lastOp = NoOp
        /\ prev' = e
        /\ ent' = InscriptionToDomain(InscriptionToOrm(e, schema))
        /\ lastOp' = [op |-> "inscription.round_trip", ok |-> (ent' # NoEntity),
                      args |-> NoArgs]
        /\ UNCHANGED <<now, schema, inscriptions, transactions, fin, req, calls>>

transaction_round_trip ==
    \E e \in SavedTransactions :
        /\ lastOp = NoOp
        /\ prev' = e
        /\ ent' = TransactionToDomain(TransactionToOrm(e, 1))
        /\ lastOp' = [op |-> "transaction.round_trip", ok |-> (ent' # NoTxn),
                      args |-> NoArgs]
        /\ UNCHANGED <<now, schema, inscriptions, transactions, fin, req, calls>>

\* to_domain of a stored row of the shape in use
inscription_to_domain ==
    \E id \in {1, 2}, st \in InscriptionStatus :
        /\ lastOp = NoOp
        /\ prev' = StoredInscription(schema, id, st)
        /\ ent' = InscriptionToDomain(prev')
        /\ lastOp' = [op |-> "inscription.to_domain", ok |-> (ent' # NoEntity),
                      args |-> NoArgs]
        /\ UNCHANGED <<now, schema, inscriptions, transactions, fin, req, calls>>

\* to_orm never raises: it returns the row it built
inscription_to_orm ==
    \E e \in SavedInscriptions :
        /\ lastOp = NoOp
        /\ prev' = e
        /\ ent' = InscriptionToOrm(e, schema)
        /\ lastOp' = [op |-> "inscription.to_orm", ok |-> TRUE, args |-> NoArgs]
        /\ UNCHANGED <<now, schema, inscriptions, transactions, fin, req, calls>>

\* update_orm_from_entity never raises: it returns the row it was given
inscription_update_orm ==
    \E e \in SavedInscriptions, st \in InscriptionStatus :
        /\ lastOp = NoOp
        /\ prev' = e
        /\ ent' = UpdateOrmFromEntity(StoredInscription(schema, 1, st), e)
        /\ lastOp' = [op |-> "inscription.update_orm", ok |-> TRUE, args |-> NoArgs]
        /\ UNCHANGED <<now, schema, inscriptions, transactions, fin, req, calls>>

----------------------------------------------------------------------------
(* Specification of one authorize_transaction run against stored rows *)

AuthWorkers == {1}

\* the stored rows a run may meet: an active and an inactive inscription of
\* ana, and a committed transaction under buy order B1
InitAuth ==
    /\ now = 0
    /\ ent = NoEntity
    /\ prev = NoEntity
    /\ lastOp = NoOp
    /\ schema \in {"legacy", "current"}
    /\ inscriptions \in SUBSET { StoredInscription(schema, 1, COMPLETED),
                                 StoredInscription(schema, 2, PENDING) }
    /\ transactions \in { {}, { StoredTransaction(1, Ana, B1, 1) } }
    /\ fin = NoFin
    /\ req = [r \in Workers |-> IdleReq]
    /\ calls = <<>>

NextAuth ==
    \E r \in AuthWorkers :
        \/ AuthorizeBegin(r, AuthRequests)
        \/ AuthorizeCheckDuplicate(r)
        \/ AuthorizeFindInscription(r)
        \/ AuthorizeCallProvider(r, AuthResponses)
        \/ AuthorizeSave(r)

SpecAuth == InitAuth /\ [][NextAuth]_vars

----------------------------------------------------------------------------
(* Specification of two authorize_transaction runs, each in its own        *)
(* worker and database session, interleaved at their round trips           *)

RaceRequests ==
    [username : {Ana}, buy_order : BuyOrders, details : { <<Item1>> }]

RaceResponses ==
    { rs \in AuthResponses :
        \/ rs.raises
        \/ /\ Len(rs.details) = 1
           /\ rs.details[1].commerce_code = Item1.commerce_code }

NextRace ==
    \E r \in Workers :
        \/ AuthorizeBegin(r, RaceRequests)
        \/ AuthorizeCheckDuplicate(r)
        \/ AuthorizeFindInscription(r)
        \/ AuthorizeCallProvider(r, RaceResponses)
        \/ AuthorizeSave(r)

SpecRace == InitAuth /\ [][NextRace]_vars

----------------------------------------------------------------------------
(* Specification of the service: every operation that calls the provider, *)
(* against stored rows                                                     *)

NextService ==
    \/ start_inscription
    \/ finish_inscription
    \/ delete_inscription
    \/ get_transaction_status
    \/ capture_transaction
    \/ refund_transaction
    \/ \E r \in AuthWorkers :
          \/ AuthorizeBegin(r, RaceRequests)
          \/ AuthorizeCheckDuplicate(r)
          \/ AuthorizeFindInscription(r)
          \/ AuthorizeCallProvider(r, RaceResponses)
          \/ AuthorizeSave(r)

SpecService == InitAuth /\ [][NextService]_vars

----------------------------------------------------------------------------
(* Specification of the repositories: calls of save_entity against stored *)
(* rows                                                                    *)

NextRepo ==
    \/ inscription_save_entity
    \/ transaction_save_entity

SpecRepo == InitAuth /\ [][NextRepo]_vars

----------------------------------------------------------------------------
(* Specification of the mappers, on every row shape *)

InitMapper ==
    /\ now = 0
    /\ ent = NoEntity
    /\ prev = NoEntity
    /\ lastOp = NoOp
    /\ schema \in {"legacy", "current", "bare"}
    /\ inscriptions = {}
    /\ transactions = {}
    /\ fin = NoFin
    /\ req = [r \in Workers |-> IdleReq]
    /\ calls = <<>>

NextMapper ==
    \/ inscription_round_trip
    \/ transaction_round_trip
    \/ inscription_to_domain
    \/ inscription_to_orm
    \/ inscription_update_orm

SpecMapper == InitMapper /\ [][NextMapper]_vars

----------------------------------------------------------------------------
(* Operations of one TransactionEntity.  A behaviour constructs one       *)
(* transaction and then calls its methods in any order.                    *)

MaxDetails == 2

\* the details a caller holds: valid TransactionDetail objects of one
\* commerce and buy order, differing in amount and in the provider's verdict
DetailValues ==
    { [commerce_code |-> Item1.commerce_code, buy_order |-> Item1.buy_order,
       amount |-> am, status |-> st, authorization_code |-> ac,
       payment_type_code |-> "VN", response_code |-> rc,
       installments_number |-> 1, id |-> NoId] :
        am \in {Item1.amount, Item2.amount}, st \in {AUTHORIZED, TXN_FAILED},
        ac \in {NoneStr, <<"A", "1">>}, rc \in {0, -96} }

\* TransactionEntity(username=..., buy_order=..., details=[...]) with the
\* arguments drawn from the given sets
TransactionConstructFrom(usernames, buy_orders, lists) ==
    \E u \in usernames, bo \in buy_orders, ds \in lists :
        /\ ent = NoEntity
        /\ lastOp.op # "transaction"
        /\ prev' = ent
        /\ ent' = TransactionEntity(
                    [username |-> u, buy_order |-> bo, details |-> ds,
                     id |-> NoId, inscription_id |-> NoId,
                     card_number |-> NoneStr, accounting_date |-> NoneStr,
                     transaction_date |-> NoTime, created_at |-> NoTime])
        /\ lastOp' = [op |-> "transaction", ok |-> (ent' # NoTxn),
                      args |-> [username |-> u, buy_order |-> bo,
                                details |-> ds]]
        /\ UNCHANGED <<now, schema, inscriptions, transactions, fin, req, calls>>

TransactionConstruct ==
    TransactionConstructFrom({Ana, <<>>}, {B1},
                             SeqsUpTo(DetailValues, MaxDetails))

\* TransactionEntity.add_detail.  The argument is either the object already
\* at position i of the list (same identity) or an object the list does not
\* hold, with field values d.
add_detail ==
    \E same \in BOOLEAN, i \in 1..MaxDetails, d \in DetailValues :
        /\ ent # NoEntity
        /\ Len(ent.details) < MaxDetails
        /\ same => i <= Len(ent.details)
        /\ LET detail == IF same THEN ent.details[i] ELSE d
           IN  /\ prev' = ent
               /\ IF DetailIn(detail, ent.details)
                  THEN ent' = ent
                  ELSE ent' = [ent EXCEPT !.details = Append(@, detail)]
               /\ lastOp' = [op |-> "add_detail",
                             ok |-> ~DetailIn(detail, ent.details),
                             args |-> [detail |-> detail,
                                       same_object |-> same]]
        /\ UNCHANGED <<now, schema, inscriptions, transactions, fin, req, calls>>

get_total_amount ==
    /\ ent # NoEntity
    /\ prev' = ent
    /\ ent' = ent
    /\ lastOp' = [op |-> "get_total_amount",
                  ok |-> (GetTotalAmount(ent).kind = "Amount"),
                  args |-> GetTotalAmount(ent)]
    /\ UNCHANGED <<now, schema, inscriptions, transactions, fin, req, calls>>

ask_is_fully_authorized ==
    /\ ent # NoEntity
    /\ prev' = ent
    /\ ent' = ent
    /\ lastOp' = [op |-> "is_fully_authorized", ok |-> TRUE,
                  args |-> [returned |-> is_fully_authorized(ent)]]
    /\ UNCHANGED <<now, schema, inscriptions, transactions, fin, req, calls>>

ask_can_be_refunded ==
    /\ ent # NoEntity
    /\ prev' = ent
    /\ ent' = ent
    /\ lastOp' = [op |-> "can_be_refunded", ok |-> TRUE,
                  args |-> [returned |-> can_be_refunded(ent)]]
    /\ UNCHANGED <<now, schema, inscriptions, transactions, fin, req, calls>>

InitTxn ==
    /\ now = 0
    /\ ent = NoEntity
    /\ prev = NoEntity
    /\ lastOp = NoOp
    /\ schema = "legacy"
    /\ inscriptions = {}
    /\ transactions = {}
    /\ fin = NoFin
    /\ req = [r \in Workers |-> IdleReq]
    /\ calls = <<>>

NextTxn ==
    \/ TransactionConstruct
    \/ add_detail
    \/ get_total_amount
    \/ ask_is_fully_authorized
    \/ ask_can_be_refunded

SpecTxn == InitTxn /\ [][NextTxn]_vars

----------------------------------------------------------------------------
(* BaseRepository on the rows of oneclick_inscriptions.  A dict of fields  *)
(* is a function from field names to values.                               *)

NoRow == [kind |-> "none"]

\* BaseRepository.get_by_id: the row with that primary key, or None
GetById(rows, id) ==
    IF \E x \in rows : x.id = id
    THEN CHOOSE x \in rows : x.id = id
    ELSE NoRow

\* an assignment loop that also creates the fields the record lacks
SetFieldsAny(row, data) ==
    [c \in DOMAIN row \cup DOMAIN data |->
        IF c \in DOMAIN data THEN data[c] ELSE row[c]]

\* for field, value in data.items(): if hasattr(obj, field): setattr(...)
SetFields(row, data) ==
    [c \in DOMAIN row |-> IF c \in DOMAIN data THEN data[c] ELSE row[c]]

\* the NOT NULL columns of the row class
UpdateAccepted(row) ==
    /\ row.id # NoId
    /\ row.username # NoneStr
    /\ row.tbk_user # NoneStr
    /\ row.inscription_date # NoTime

\* the dicts handed to update: a changed value, the stored value, a field
\* the row class does not have, and a None for a NOT NULL column
UpdateData ==
    { [tbk_user |-> <<"t", "2">>], [tbk_user |-> <<"t", "1">>],
      [is_active |-> FALSE], [nickname |-> <<"n">>],
      [tbk_user |-> <<"t", "2">>, nickname |-> <<"n">>],
      [is_active |-> TRUE, updated_at |-> 0],
      [username |-> NoneStr] }

BaseIds == {1, 2, 3}

BaseUpdate ==
    \E id \in BaseIds, data \in UpdateData :
        LET obj == GetById(inscriptions, id)
            set == SetFields(obj, data)
            new == Flushed(obj, set, now)
        IN  /\ IF obj = NoRow
               THEN /\ lastOp' = [op |-> "update", ok |-> TRUE,
                                  args |-> [id |-> id, data |-> data,
                                            returned |-> NoRow]]
                    /\ UNCHANGED inscriptions
               ELSE IF ~UpdateAccepted(set)
               THEN \* the flush raises IntegrityError
                    /\ lastOp' = [op |-> "update", ok |-> FALSE,
                                  args |-> [id |-> id, data |-> data,
                                            returned |-> NoRow]]
                    /\ UNCHANGED inscriptions
               ELSE /\ lastOp' = [op |-> "update", ok |-> TRUE,
                                  args |-> [id |-> id, data |-> data,
                                            returned |-> new]]
                    /\ inscriptions' = (inscriptions \ {obj}) \cup {new}
            /\ UNCHANGED <<now, ent, prev, schema, transactions, fin, req, calls>>

BaseDelete ==
    \E id \in BaseIds :
        LET obj == GetById(inscriptions, id) IN
        /\ IF obj = NoRow
           THEN /\ lastOp' = [op |-> "delete", ok |-> TRUE,
                              args |-> [id |-> id, returned |-> FALSE]]
                /\ UNCHANGED inscriptions
           ELSE IF ~DeleteAccepted(id)
           THEN \* the flush raises IntegrityError
                /\ lastOp' = [op |-> "delete", ok |-> FALSE,
                              args |-> [id |-> id, returned |-> FALSE]]
                /\ UNCHANGED inscriptions
           ELSE /\ lastOp' = [op |-> "delete", ok |-> TRUE,
                              args |-> [id |-> id, returned |-> TRUE]]
                /\ inscriptions' = inscriptions \ {obj}
        /\ UNCHANGED <<now, ent, prev, schema, transactions, fin, req, calls>>

BaseGetById ==
    \E id \in BaseIds :
        /\ lastOp' = [op |-> "get_by_id", ok |-> TRUE,
                      args |-> [id |-> id,
                                returned |-> GetById(inscriptions, id)]]
        /\ UNCHANGED <<now, ent, prev, schema, inscriptions, transactions, fin, req, calls>>

\* the stored rows: inscriptions 1 and 2 as the storage holds them, and
\* possibly a transaction that points to inscription 1
InitBase ==
    /\ now = 0
    /\ ent = NoEntity
    /\ prev = NoEntity
    /\ lastOp = NoOp
    /\ schema = "legacy"
    /\ inscriptions \in SUBSET
          { Refreshed(StoredInscription("legacy", 1, COMPLETED), {}, 0),
            Refreshed(StoredInscription("legacy", 2, PENDING), {}, 0) }
    /\ transactions \in { {}, { StoredTransaction(1, Ana, B1, 1) } }
    /\ fin = NoFin
    /\ req = [r \in Workers |-> IdleReq]
    /\ calls = <<>>

NextBase ==
    \/ Tick
    \/ BaseUpdate
    \/ BaseDelete
    \/ BaseGetById

SpecBase == InitBase /\ [][NextBase]_vars

----------------------------------------------------------------------------
(* Constructors of Amount, TransactionDetail and TransactionEntity.  A    *)
(* behaviour calls the constructors of the parts and then the            *)
(* constructor of one transaction.                                       *)

MaxAmount == 3

\* Amount(value=v) for the values around zero
AmountConstruct ==
    \E v \in -MaxAmount..MaxAmount :
        /\ ent = NoEntity
        /\ lastOp.op # "transaction"
        /\ lastOp' = [op |-> "Amount", ok |-> (Amount(v).kind = "Amount"),
                      args |-> [v |-> v, result |-> Amount(v)]]
        /\ UNCHANGED <<now, ent, prev, schema, inscriptions, transactions, fin, req, calls>>

\* strings on both sides of the length limit, the empty one and None
LongBuyOrder == [i \in 1..MaxBuyOrderLen |-> "x"]
TooLongBuyOrder == [i \in 1..(MaxBuyOrderLen + 1) |-> "x"]
LengthBuyOrders == { <<>>, NoneStr, B1, LongBuyOrder, TooLongBuyOrder }

LengthDetail(cc, bo) ==
    [commerce_code |-> cc, buy_order |-> bo,
     amount |-> Item1.amount, status |-> AUTHORIZED,
     authorization_code |-> NoneStr,
     payment_type_code |-> NoPaymentType, response_code |-> 0,
     installments_number |-> 1, id |-> NoId]

\* TransactionDetail(commerce_code=..., buy_order=..., amount=..., status=...)
TransactionDetailConstruct ==
    \E cc \in { <<>>, NoneStr, Item1.commerce_code }, bo \in LengthBuyOrders :
        /\ ent = NoEntity
        /\ lastOp.op # "transaction"
        /\ lastOp' = [op |-> "TransactionDetail",
                      ok |-> DetailValid(LengthDetail(cc, bo)),
                      args |-> LengthDetail(cc, bo)]
        /\ UNCHANGED <<now, ent, prev, schema, inscriptions, transactions, fin, req, calls>>

\* the details a constructed transaction is given: constructed details
\* whose own buy_order is short or as long as allowed
LengthDetails ==
    { LengthDetail(Item1.commerce_code, bo) : bo \in {Item1.buy_order, LongBuyOrder} }

TransactionConstructLengths ==
    TransactionConstructFrom({ <<>>, NoneStr, Ana, Bob }, LengthBuyOrders,
                             SeqsUpTo(LengthDetails, 2))

NextConstruct ==
    \/ AmountConstruct
    \/ TransactionDetailConstruct
    \/ TransactionConstructLengths

SpecConstruct == InitTxn /\ [][NextConstruct]_vars

----------------------------------------------------------------------------
(* authorize_transaction with buy orders on both sides of the length limit *)

\* the request schema puts no limit on parent_buy_order
LengthRequests ==
    [username : {Ana}, buy_order : LengthBuyOrders \ {NoneStr},
     details : { <<Item1>> }]

NextAuthLengths ==
    \E r \in AuthWorkers :
        \/ AuthorizeBegin(r, LengthRequests)
        \/ AuthorizeCheckDuplicate(r)
        \/ AuthorizeFindInscription(r)
        \/ AuthorizeCallProvider(r, AuthResponses)
        \/ AuthorizeSave(r)

SpecAuthLengths == InitAuth /\ [][NextAuthLengths]_vars

----------------------------------------------------------------------------
(* Properties of the inscription lifecycle (checked under Spec) *)

\* the four construction conditions, as stated for the entity's fields
FieldsValid(x) ==
    /\ x.username # NoneStr /\ Len(x.username) >= 3
    /\ x.email # NoneStr /\ \E i \in 1..Len(x.email) : x.email[i] = "@"
    /\ x.tbk_user # NoneStr /\ Len(x.tbk_user) >= 1
    /\ x.url_webpay # NoneStr /\ Len(x.url_webpay) >= 1

NonEmpty(s) == s # NoneStr /\ s # <<>>

\* C1: complete_inscription succeeds exactly on a PENDING inscription with a
\* non-empty authorization_code; it then moves the status to COMPLETED and
\* sets authorization_code and card_details to the given values; in any
\* other status, or with an empty code, it is rejected.
C1_CompleteFromPendingOnly ==
    lastOp.op = "complete" =>
        /\ lastOp.ok <=> (prev.status = PENDING
                          /\ NonEmpty(lastOp.args.authorization_code))
        /\ lastOp.ok =>
              /\ ent.status = COMPLETED
              /\ ent.authorization_code = lastOp.args.authorization_code
              /\ ent.card_details = lastOp.args.card_details

C1_Witness ==
    /\ lastOp.op = "complete" /\ lastOp.ok
    /\ prev.status = PENDING /\ ent.status = COMPLETED
    /\ ent.card_details.present

\* C2: expire succeeds only on a PENDING inscription, moving it to EXPIRED;
\* on COMPLETED, FAILED or EXPIRED it is rejected.
C2_ExpireFromPendingOnly ==
    lastOp.op = "expire" =>
        /\ lastOp.ok <=> prev.status = PENDING
        /\ lastOp.ok => ent.status = EXPIRED
        /\ ~lastOp.ok => ent.status = prev.status

C2_Witness ==
    /\ lastOp.op = "expire" /\ lastOp.ok
    /\ prev.status = PENDING /\ ent.status = EXPIRED

\* C3: fail(reason) always succeeds and leaves the inscription FAILED,
\* whatever the status before the call and whatever the reason.
C3_FailAlwaysSucceeds ==
    lastOp.op = "fail" => lastOp.ok /\ ent.status = FAILED

C3_Witness ==
    /\ lastOp.op = "fail" /\ lastOp.ok
    /\ prev.status = COMPLETED /\ ent.status = FAILED

\* C4: a rejected complete_inscription or expire changes nothing: status,
\* authorization_code, card_details and updated_at (and every other field)
\* are what they were before the call.
C4_RejectedChangesNothing ==
    (lastOp.op \in {"complete", "expire"} /\ ~lastOp.ok) =>
        /\ ent = prev
        /\ ent.status = prev.status
        /\ ent.authorization_code = prev.authorization_code
        /\ ent.card_details = prev.card_details
        /\ ent.updated_at = prev.updated_at

C4_Witness ==
    /\ lastOp.op = "complete" /\ ~lastOp.ok
    /\ prev.status = PENDING
    /\ lastOp.args.authorization_code = <<>>
    /\ now # prev.updated_at
    /\ ent = prev

\* C5 (as claimed): every valid construction, the one inside
\* finish_inscription included, yields status PENDING and an absent id.
C5_AlwaysStartsPending ==
    (lastOp.op \in {"construct", "finish"} /\ lastOp.ok) =>
        ent.status = PENDING /\ ent.id = NoId

\* C5 (amended): a valid construction keeps the status and the id it is
\* given; the entity built by finish_inscription is built directly in
\* COMPLETED with an absent id.
C5_ConstructionKeepsGivenStatus ==
    /\ (lastOp.op = "construct" /\ lastOp.ok) =>
          ent.status = lastOp.args.status /\ ent.id = lastOp.args.id
    /\ (lastOp.op = "finish" /\ lastOp.ok) =>
          ent.status = COMPLETED /\ ent.id = NoId

C5_Witness ==
    /\ lastOp.op = "finish" /\ lastOp.ok
    /\ ent.status = COMPLETED /\ ent.id = NoId
    /\ fin.outcome = "ok"

\* C6: no invalid inscription entity exists: construction fails unless the
\* four field conditions hold, and they still hold after any sequence of
\* complete_inscription, expire and fail.
C6_NoInvalidEntity ==
    /\ ent # NoEntity => FieldsValid(ent)
    /\ lastOp.op = "construct" => (lastOp.ok <=> FieldsValid(lastOp.args))
    /\ (lastOp.op = "finish" /\ lastOp.args # NoArgs /\ ~lastOp.ok) =>
          (~FieldsValid(lastOp.args) \/ Len(lastOp.args.card_details.card_number) < 4)

C6_Witness ==
    /\ ent # NoEntity /\ FieldsValid(ent)
    /\ lastOp.op = "fail" /\ prev.status = EXPIRED

\* the fields no transition may touch
Identity(e) ==
    <<e.id, e.username, e.email, e.tbk_user, e.url_webpay, e.created_at>>

\* C23: every successful complete_inscription, expire and fail sets
\* updated_at to the current time; construction leaves updated_at as given
\* (absent when not supplied); none of the three transitions changes id,
\* username, email, tbk_user, url_webpay or created_at.
C23_TransitionsStampUpdatedAt ==
    [][ /\ ( /\ now' = now
             /\ lastOp'.op \in {"complete", "expire", "fail"} )
           => /\ lastOp'.ok => ent'.updated_at = now
              /\ Identity(ent') = Identity(ent)
        /\ ( lastOp'.op = "construct" /\ lastOp'.ok /\ ent = NoEntity )
           => ent'.updated_at = lastOp'.args.updated_at ]_vars

\* an inscription constructed with updated_at 0 is completed at a later time
C23_Witness ==
    /\ lastOp.op = "complete" /\ lastOp.ok
    /\ prev.updated_at = 0
    /\ now > 0
    /\ ent.updated_at = now

----------------------------------------------------------------------------
(* Properties of authorize_transaction (checked under SpecAuth, SpecRace) *)

\* the provider calls made by worker r
CallsOf(r) == { i \in 1..Len(calls) : calls[i].worker = r }

ApprovesSent(response, sent) ==
    /\ ~response.raises
    /\ Len(response.details) = Len(sent)
    /\ \A i \in 1..Len(sent) :
          /\ response.details[i].commerce_code = sent[i].commerce_code
          /\ response.details[i].buy_order = sent[i].buy_order
          /\ response.details[i].amount = sent[i].amount
          /\ response.details[i].response_code = 0

\* C9: when the provider approves every detail it is sent, the run of a
\* request with n details ends with a saved entity of exactly n AUTHORIZED
\* details, fully authorized, whose total is the sum of the n requested
\* amounts.
C9_AllApprovedIsSavedInFull ==
    \A r \in Workers :
        ( /\ req[r].pc = "done"
          /\ req[r].called
          /\ ApprovesSent(req[r].response, req[r].sent) )
        => /\ req[r].saved # NoTxn
           /\ Len(req[r].saved.details) = Len(req[r].details)
           /\ \A i \in 1..Len(req[r].saved.details) :
                 req[r].saved.details[i].status = AUTHORIZED
           /\ is_fully_authorized(req[r].saved)
           /\ SumAmounts(req[r].saved.details) = SumAmounts(req[r].details)

\* the response has an approved and a declined detail
Mixed(response) ==
    /\ \E i \in 1..Len(response.details) : response.details[i].response_code = 0
    /\ \E i \in 1..Len(response.details) : response.details[i].response_code # 0

----------------------------------------------------------------------------
(* Properties of the service operations (checked under SpecService) *)

\* C11: in every operation that calls the provider, an exception raised by
\* the provider call reaches the caller as the communication error carrying
\* the original message, never as the exception the provider raised.
C11_ProviderErrorsAreWrapped ==
    /\ fin.raised # NoError => fin.signal = CommunicationError(fin.raised)
    /\ \A r \in Workers :
          req[r].response.raises =>
              req[r].signal = CommunicationError(req[r].response.exc)

\* C12: when the provider's finish call returns with a nonzero
\* response_code, finish_inscription ends with the rejection signal, not the
\* communication error, and that call saves and commits no inscription.
C12_RejectionIsNotCommunicationError ==
    [][ ( /\ lastOp'.op = "finish"
          /\ fin'.returned
          /\ fin'.response_code # 0 )
        => /\ fin'.outcome = "rejected"
           /\ fin'.signal = RejectedError
           /\ fin'.signal.type # "TransbankCommunicationException"
           /\ fin'.saved = NoEntity
           /\ ~fin'.committed
           /\ inscriptions' = inscriptions ]_vars

C12_Witness ==
    /\ lastOp.op = "finish"
    /\ fin.called /\ fin.returned /\ fin.response_code # 0
    /\ fin.outcome = "rejected"

C27_EveryErrorRollsBack ==
    /\ (lastOp.op = "finish" /\ fin.outcome \notin {"none", "ok"}) =>
          /\ fin.rolled_back
          /\ ~fin.committed
          /\ fin.saved = NoEntity
    /\ \A r \in Workers :
          (req[r].pc = "done" /\ req[r].outcome # "ok") =>
              /\ req[r].rolled_back
              /\ ~req[r].committed
              /\ req[r].saved = NoTxn

\* C27 (amended): whenever authorize_transaction or finish_inscription ends
\* with an error, nothing of that call is saved or committed; the session
\* is rolled back exactly when the call ends with the communication error,
\* and not when it ends with a duplicate conflict, not-found, rejection or
\* validation error.
C27_OnlyCommunicationErrorsRollBack ==
    /\ (lastOp.op = "finish" /\ fin.outcome \notin {"none", "ok"}) =>
          /\ fin.rolled_back <=> fin.outcome = "communication_error"
          /\ ~fin.committed
          /\ fin.saved = NoEntity
    /\ \A r \in Workers :
          (req[r].pc = "done" /\ req[r].outcome # "ok") =>
              /\ req[r].rolled_back <=> req[r].outcome = "communication_error"
              /\ ~req[r].committed
              /\ req[r].saved = NoTxn

\* an authorization that fails at the flush is rolled back
C27_Witness ==
    /\ req[1].pc = "done"
    /\ req[1].added
    /\ req[1].outcome = "communication_error"
    /\ req[1].rolled_back
    /\ ~req[1].committed

\* a rejected finish is not rolled back
C27_WitnessRejected ==
    /\ lastOp.op = "finish"
    /\ fin.outcome = "rejected"
    /\ ~fin.rolled_back

----------------------------------------------------------------------------
(* Properties of the repositories (checked under SpecRepo) *)

\* C13: save_entity of both repositories updates the stored row in place,
\* leaving the number of rows unchanged, when the entity carries the id of
\* a stored row, and inserts exactly one new row when it carries no id.
C13_SaveUpdatesOrInserts ==
    [][ /\ lastOp'.op = "inscription.save_entity" =>
             IF lastOp'.args.id # NoId
             THEN (\E x \in inscriptions : x.id = lastOp'.args.id) =>
                     /\ Cardinality(inscriptions') = Cardinality(inscriptions)
                     /\ \E x \in inscriptions' :
                           /\ x.id = lastOp'.args.id
                           /\ x.tbk_user = lastOp'.args.tbk_user
             ELSE Cardinality(inscriptions') = Cardinality(inscriptions) + 1
        /\ lastOp'.op = "transaction.save_entity" =>
             IF lastOp'.args.id # NoId
             THEN (\E x \in transactions : x.id = lastOp'.args.id) =>
                     /\ Cardinality(transactions') = Cardinality(transactions)
                     /\ \E x \in transactions' :
                           /\ x.id = lastOp'.args.id
                           /\ x.parent_buy_order = lastOp'.args.buy_order
             ELSE Cardinality(transactions') = Cardinality(transactions) + 1
      ]_vars

----------------------------------------------------------------------------
(* Properties of the mappers (checked under SpecMapper) *)

\* C14: for every valid inscription entity, on the legacy and on the current
\* row shape, to_domain(to_orm(e)) succeeds and equals e on username, email,
\* tbk_user, url_webpay, status, card_details and authorization_code.
C14_InscriptionRoundTrip ==
    (lastOp.op = "inscription.round_trip" /\ schema \in {"legacy", "current"}) =>
        /\ ent # NoEntity
        /\ ent.username = prev.username
        /\ ent.email = prev.email
        /\ ent.tbk_user = prev.tbk_user
        /\ ent.url_webpay = prev.url_webpay
        /\ ent.status = prev.status
        /\ ent.card_details = prev.card_details
        /\ ent.authorization_code = prev.authorization_code

\* the fields of a detail that the round trip is to keep
DetailFields(d) ==
    [commerce_code |-> d.commerce_code, buy_order |-> d.buy_order,
     amount |-> d.amount, status |-> d.status,
     authorization_code |-> d.authorization_code,
     payment_type_code |-> d.payment_type_code,
     response_code |-> d.response_code,
     installments_number |-> d.installments_number]

\* C15: for every valid transaction entity, to_domain(to_orm(e)) equals e on
\* username, buy_order, inscription_id, card_number, accounting_date,
\* transaction_date and on the ordered list of details.
C15_TransactionRoundTrip ==
    lastOp.op = "transaction.round_trip" =>
        /\ ent # NoTxn
        /\ ent.username = prev.username
        /\ ent.buy_order = prev.buy_order
        /\ ent.inscription_id = prev.inscription_id
        /\ ent.card_number = prev.card_number
        /\ ent.accounting_date = prev.accounting_date
        /\ ent.transaction_date = prev.transaction_date
        /\ Len(ent.details) = Len(prev.details)
        /\ \A i \in 1..Len(ent.details) :
              DetailFields(ent.details[i]) = DetailFields(prev.details[i])

\* C16: to_domain of a stored row without a url_webpay field does not fail;
\* it returns an entity whose url_webpay is the empty value.
C16_MissingUrlDefaultsToEmpty ==
    (lastOp.op = "inscription.to_domain" /\ "url_webpay" \notin DOMAIN prev) =>
        /\ ent # NoEntity
        /\ ent.url_webpay = <<>>

\* C17: to_orm and update_orm_from_entity never return a row that lacks the
\* entity's status or card number: a row shape with neither status nor
\* is_active, or with neither card_number nor card_number_masked, makes the
\* mapper signal an error.
C17_NoSilentDrop ==
    (lastOp.op \in {"inscription.to_orm", "inscription.update_orm"} /\ lastOp.ok) =>
        /\ "status" \in DOMAIN ent \/ "is_active" \in DOMAIN ent
        /\ prev.card_details.present =>
              \/ "card_number" \in DOMAIN ent
              \/ "card_number_masked" \in DOMAIN ent
----------------------------------------------------------------------------
(* Properties of the transaction entity (checked under SpecTxn and       *)
(* SpecConstruct)                                                        *)

\* C18: add_detail rejects a detail exactly when that same object is already
\* in the transaction, and then leaves the detail list unchanged; any other
\* detail, a distinct object with equal field values included, is appended
\* at the end of the list.
C18_AddDetailRejectsSameObjectOnly ==
    lastOp.op = "add_detail" =>
        /\ lastOp.ok <=> ~lastOp.args.same_object
        /\ ~lastOp.ok => ent.details = prev.details
        /\ lastOp.ok => ent.details = Append(prev.details, lastOp.args.detail)
\* C19: is_fully_authorized() is true iff the transaction has at least one
\* detail and every detail has status AUTHORIZED, response_code 0 and an
\* authorization_code present; can_be_refunded() returns the same value.
AllDetailsApproved(t) ==
    /\ Len(t.details) >= 1
    /\ \A i \in 1..Len(t.details) :
          /\ t.details[i].status = "AUTHORIZED"
          /\ t.details[i].response_code = 0
          /\ t.details[i].authorization_code # NoneStr

C19_FullyAuthorizedIffEveryDetailApproved ==
    lastOp.op \in {"is_fully_authorized", "can_be_refunded"} =>
        (lastOp.args.returned <=> AllDetailsApproved(ent))

\* both answers occur, and a detail with status AUTHORIZED but a nonzero
\* response code makes the answer FALSE
C19_Witness ==
    /\ lastOp.op = "can_be_refunded"
    /\ ~lastOp.args.returned
    /\ Len(ent.details) = 2
    /\ is_authorized(ent.details[1])
    /\ ent.details[2].status = AUTHORIZED
    /\ ent.details[2].response_code # 0
\* C20: get_total_amount() returns an Amount whose value is the arithmetic
\* sum of all detail amounts whenever the transaction has at least one
\* detail, and fails with the amount validation error when it has none; it
\* never returns an Amount whose value is zero or negative.
RECURSIVE SumOfAmounts(_, _)
SumOfAmounts(details, n) ==
    IF n = 0 THEN 0 ELSE details[n].amount + SumOfAmounts(details, n - 1)

C20_TotalIsSumOrValidationError ==
    lastOp.op = "get_total_amount" =>
        /\ Len(ent.details) >= 1 =>
              /\ lastOp.args.kind = "Amount"
              /\ lastOp.args.value = SumOfAmounts(ent.details, Len(ent.details))
        /\ Len(ent.details) = 0 => lastOp.args.kind = "ValueError"
        /\ lastOp.args.kind = "Amount" => lastOp.args.value > 0

\* the total of an empty transaction is refused
C20_Witness ==
    /\ lastOp.op = "get_total_amount"
    /\ ent.details = <<>>
    /\ ~lastOp.ok

\* the total of two details is returned
C20_WitnessSum ==
    /\ lastOp.op = "get_total_amount"
    /\ Len(ent.details) = 2
    /\ lastOp.args = [kind |-> "Amount", value |-> 35000]
\* C21: constructing Amount(v) succeeds iff v > 0; a negative v is rejected
\* with the 'cannot be negative' error and v = 0 with the 'must be greater
\* than zero' error, so no Amount with value <= 0 is observable.
C21_AmountIffPositive ==
    lastOp.op = "Amount" =>
        /\ lastOp.ok <=> lastOp.args.v > 0
        /\ lastOp.ok => lastOp.args.result = [kind |-> "Amount", value |-> lastOp.args.v]
        /\ lastOp.args.v < 0 =>
              lastOp.args.result =
                [kind |-> "ValueError", message |-> "Amount cannot be negative"]
        /\ lastOp.args.v = 0 =>
              lastOp.args.result =
                [kind |-> "ValueError", message |-> "Amount must be greater than zero"]
        /\ lastOp.args.result.kind = "Amount" => lastOp.args.result.value > 0

\* Amount(0) is refused
C21_Witness ==
    /\ lastOp.op = "Amount"
    /\ lastOp.args.v = 0
    /\ ~lastOp.ok
\* C22: TransactionEntity construction succeeds iff username is non-empty
\* and buy_order is non-empty with at most 26 characters; TransactionDetail
\* construction succeeds iff commerce_code is non-empty and its own
\* buy_order is non-empty with at most 26 characters; neither check looks at
\* the other object's buy_order.
C22_ConstructionRules ==
    /\ lastOp.op = "transaction" =>
          (lastOp.ok <=> /\ NonEmpty(lastOp.args.username)
                         /\ NonEmpty(lastOp.args.buy_order)
                         /\ Len(lastOp.args.buy_order) <= 26)
    /\ lastOp.op = "TransactionDetail" =>
          (lastOp.ok <=> /\ NonEmpty(lastOp.args.commerce_code)
                         /\ NonEmpty(lastOp.args.buy_order)
                         /\ Len(lastOp.args.buy_order) <= 26)

\* a detail whose own buy_order has 27 characters is refused
C22_Witness ==
    /\ lastOp.op = "TransactionDetail"
    /\ NonEmpty(lastOp.args.commerce_code)
    /\ Len(lastOp.args.buy_order) = 27
    /\ ~lastOp.ok

\* a transaction with a 2-character buy_order is built from a detail whose
\* own buy_order has 26 characters
C22_WitnessParent ==
    /\ lastOp.op = "transaction"
    /\ lastOp.ok
    /\ Len(ent.buy_order) = 2
    /\ Len(ent.details) = 1
    /\ Len(ent.details[1].buy_order) = 26
----------------------------------------------------------------------------
(* Properties of the base repository (checked under SpecBase) *)

\* the fields of data whose value differs from the stored one
ChangedFields(old, data) ==
    { c \in DOMAIN data \cap DOMAIN old : data[c] # old[c] }

\* C24 (as claimed): update and delete on an id with no stored record return
\* absent and false and leave the store unchanged; after delete returns
\* true, get_by_id of that id returns absent; update changes only the named
\* fields that the record has and leaves every other field unchanged.
C24_UpdateChangesOnlyNamedFields ==
    [][ /\ (now' = now /\ lastOp'.op = "update") =>
            LET a == lastOp'.args
                old == GetById(inscriptions, a.id)
            IN  /\ old = NoRow =>
                      a.returned = NoRow /\ inscriptions' = inscriptions
                /\ (old # NoRow /\ lastOp'.ok) =>
                      /\ inscriptions' = (inscriptions \ {old}) \cup {a.returned}
                      /\ DOMAIN a.returned = DOMAIN old
                      /\ \A c \in DOMAIN old :
                            a.returned[c] =
                              IF c \in DOMAIN a.data THEN a.data[c] ELSE old[c]
        /\ (now' = now /\ lastOp'.op = "delete") =>
            LET a == lastOp'.args IN
                /\ GetById(inscriptions, a.id) = NoRow =>
                      a.returned = FALSE /\ inscriptions' = inscriptions
                /\ a.returned => GetById(inscriptions', a.id) = NoRow ]_vars

\* C24 (amended): as claimed, except that an update which changes the value
\* of at least one named field also sets updated_at to the current time,
\* unless updated_at is itself named with a value other than the stored one.
C24_UpdateAlsoStampsUpdatedAt ==
    [][ /\ (now' = now /\ lastOp'.op = "update") =>
            LET a == lastOp'.args
                old == GetById(inscriptions, a.id)
            IN  /\ old = NoRow =>
                      a.returned = NoRow /\ inscriptions' = inscriptions
                /\ (old # NoRow /\ lastOp'.ok) =>
                      /\ inscriptions' = (inscriptions \ {old}) \cup {a.returned}
                      /\ DOMAIN a.returned = DOMAIN old
                      /\ \A c \in DOMAIN old :
                            a.returned[c] =
                              IF /\ c = "updated_at"
                                 /\ ChangedFields(old, a.data) # {}
                                 /\ c \notin ChangedFields(old, a.data)
                              THEN now
                              ELSE IF c \in DOMAIN a.data THEN a.data[c]
                              ELSE old[c]
        /\ (now' = now /\ lastOp'.op = "delete") =>
            LET a == lastOp'.args IN
                /\ GetById(inscriptions, a.id) = NoRow =>
                      a.returned = FALSE /\ inscriptions' = inscriptions
                /\ a.returned => GetById(inscriptions', a.id) = NoRow ]_vars

\* an update of tbk_user at time 1 returns the row with the new tbk_user
\* and with updated_at 1
C24_Witness ==
    /\ lastOp.op = "update" /\ lastOp.ok
    /\ DOMAIN lastOp.args.data = {"tbk_user"}
    /\ lastOp.args.returned # NoRow
    /\ lastOp.args.returned.tbk_user = <<"t", "2">>
    /\ lastOp.args.returned.updated_at = 1
    /\ now = 1
\* C29: in every reachable TransactionEntity, whether built by the
\* constructor from a supplied list, by the mapper from stored rows or grown
\* by add_detail, the details list contains no two equal details.
C29_NoTwoEqualDetails ==
    ent # NoEntity =>
        \A i \in 1..Len(ent.details), j \in 1..Len(ent.details) :
            ent.details[i] = ent.details[j] => i = j
----------------------------------------------------------------------------
(* Properties of the order of the inscription's statuses *)

\* C30: under any sequence of complete_inscription, expire and fail calls an
\* inscription never returns to PENDING once it has left it, never leaves
\* FAILED once it is FAILED, never goes from EXPIRED to COMPLETED and never
\* from COMPLETED to EXPIRED.
C30_StatusOrder ==
    [][(ent # NoEntity /\ ent' # NoEntity) =>
          /\ ent.status # PENDING => ent'.status # PENDING
          /\ ent.status = FAILED => ent'.status = FAILED
          /\ ent.status = EXPIRED => ent'.status # COMPLETED
          /\ ent.status = COMPLETED => ent'.status # EXPIRED]_vars

\* complete_inscription has been called on an EXPIRED inscription, after
\* an expire that left PENDING
C30_Witness ==
    /\ lastOp.op = "complete"
    /\ NonEmpty(lastOp.args.authorization_code)
    /\ prev.status = EXPIRED
    /\ ent.status = EXPIRED
    /\ prev.updated_at # NoTime

====
